---- MODULE Spec2Model ----
(***************************************************************************)
(* A model of src/myHeap.c: a best-fit heap allocator over one mmap'ed     *)
(* arena with delayed coalescing.  Memory is modelled word by word (one    *)
(* 4-byte int per address divisible by 4), so stale headers and footers    *)
(* inside blocks are part of the state, exactly as in the C program.       *)
(***************************************************************************)
EXTENDS Integers, Sequences, FiniteSets, TLC

(* ------------------------------------------------------------------ *)
(* Bounds of the model.                                                 *)
(* ------------------------------------------------------------------ *)

\* The page size in double words (8 bytes): getpagesize() is a multiple of 8.
PageDWords == 4

(* ------------------------------------------------------------------ *)
(* Program constants and C arithmetic.                                  *)
(* ------------------------------------------------------------------ *)

NULL == 0

\* sizeof(blockHeader): one int.
HdrSize == 4

INT_MAX == 2147483647

\* getpagesize()
pagesize == 8 * PageDWords

\* The address mmap returns: page aligned and not NULL.
MmapBase == pagesize

\* a + b in a 32-bit int (two's complement wrap-around).
Add32(a, b) ==
    IF b > 0 /\ a > INT_MAX - b THEN (a - INT_MAX - 1) + (b - INT_MAX - 1)
    ELSE IF b < 0 /\ a < (-INT_MAX - 1) - b THEN (a + INT_MAX + 1) + (b + INT_MAX + 1)
    ELSE a + b

\* C's % and / truncate towards zero.
CMod(x, m) == IF x >= 0 THEN x % m ELSE -((-x) % m)
CDiv(x, m) == IF x >= 0 THEN x \div m ELSE -((-x) \div m)

\* x & 1 and x & 2 on a two's complement int.
And1(x) == x % 2
And2(x) == 2 * ((x \div 2) % 2)

(* ------------------------------------------------------------------ *)
(* State.                                                               *)
(* ------------------------------------------------------------------ *)

VARIABLES
    heapStart,      \* blockHeader *heapStart (an address, NULL before myInit)
    allocsize,      \* int allocsize
    allocated_once, \* static int allocated_once of myInit
    mem,            \* the mapped words: address -> int
    halted,         \* the process left defined behaviour (fault or endless loop)
    last,           \* history: the last call, its argument, result and heap before
    script          \* history: how far the calls so far follow the scenario

vars == <<heapStart, allocsize, allocated_once, mem, halted, last, script>>

NoMem == [a \in {} |-> 0]

\* The call before the last one was a different call.
NoRepeat == [same |-> FALSE, ret |-> 0, changed |-> FALSE]

Mapped(m, a) == a \in DOMAIN m

\* A walk over more steps than there are words has revisited a word: it is
\* taken never to return.
Fuel(m) == Cardinality(DOMAIN m) + 1

(* ------------------------------------------------------------------ *)
(* The scenario: initialize(4096); a1 = allocate(40); a2 = allocate(40); *)
(* free(a1); coalesce(); a3 = allocate(80), on pages of 4096 bytes.      *)
(* ------------------------------------------------------------------ *)

\* getpagesize() in the scenario.
ScenarioPage == 4096

\* No call was made yet.
ScriptStart == [step |-> 0, a1 |-> NULL, a2 |-> NULL]

\* The number of calls counted after the calls left the scenario.
MaxOffScript == 2

\* The calls made are not a prefix of the scenario: the last one left it.
ScriptOff == [step |-> -1, a1 |-> NULL, a2 |-> NULL]

\* script after one more call. While the calls made are a prefix of the
\* scenario, step counts them and a1 and a2 are what its first two myAlloc
\* calls returned; after that -step counts the calls made since, up to
\* MaxOffScript.
Follow(op, arg, ret) ==
    IF script.step = 0 /\ op = "init" /\ arg = ScenarioPage /\ ret = 0
    THEN [script EXCEPT !.step = 1]
    ELSE IF script.step = 1 /\ op = "alloc" /\ arg = 40
    THEN [script EXCEPT !.step = 2, !.a1 = ret]
    ELSE IF script.step = 2 /\ op = "alloc" /\ arg = 40
    THEN [script EXCEPT !.step = 3, !.a2 = ret]
    ELSE IF script.step = 3 /\ op = "free" /\ arg = script.a1
    THEN [script EXCEPT !.step = 4]
    ELSE IF script.step = 4 /\ op = "coalesce"
    THEN [script EXCEPT !.step = 5]
    ELSE IF script.step = 5 /\ op = "alloc" /\ arg = 80
    THEN [script EXCEPT !.step = 6]
    ELSE IF script.step >= 0 THEN ScriptOff
    ELSE IF script.step > -MaxOffScript THEN [script EXCEPT !.step = @ - 1]
    ELSE script

(* ------------------------------------------------------------------ *)
(* myInit                                                               *)
(* ------------------------------------------------------------------ *)

\* padsize and allocsize of myInit on pages of page bytes: sizeOfRegion
\* rounded up to whole pages.
PaddedSizeOn(page, sizeOfRegion) ==
    LET padsize == (page - (sizeOfRegion % page)) % page
    IN  sizeOfRegion + padsize

PaddedSize(sizeOfRegion) == PaddedSizeOn(pagesize, sizeOfRegion)

\* Mutant of InitialHeapAt: the p-bit of the first header is not set.
InitialHeapAtNoPBit(mmap_ptr, total) ==
    LET usable == total - 8
        hs     == mmap_ptr + 4
        words  == {mmap_ptr + 4 * i : i \in 0 .. (total \div 4) - 1}
        zero   == [a \in words |-> 0]
        m1     == [zero EXCEPT ![hs + usable] = 1]
        m2     == [m1 EXCEPT ![hs] = usable]
    IN  [m2 EXCEPT ![hs + usable - 4] = usable]

\* The arena myInit builds in a fresh zero-filled mapping of total bytes:
\* the end mark, the header of the one free block (p-bit set) and its footer.
InitialHeapAt(mmap_ptr, total) ==
    LET usable == total - 8
        hs     == mmap_ptr + 4
        words  == {mmap_ptr + 4 * i : i \in 0 .. (total \div 4) - 1}
        zero   == [a \in words |-> 0]
        m1     == [zero EXCEPT ![hs + usable] = 1]
        m2     == [m1 EXCEPT ![hs] = usable]
        m3     == [m2 EXCEPT ![hs] = m2[hs] + 2]
    IN  [m3 EXCEPT ![hs + usable - 4] = usable]

InitialHeap(total) == InitialHeapAt(MmapBase, total)

\* The environment of one myInit call: open and mmap succeed or fail.
InitOutcomes == {"ok", "open_fails", "mmap_fails"}

\* The region sizes myInit is called with.
InitSizes == {0, 1, pagesize}

\* Mutant of AlreadyInitialised: the guard against a second call is missing.
AlreadyInitialisedNever(once) == FALSE

\* The guard of myInit against a second call.
AlreadyInitialised(once) == once # 0

\* myInit(sizeOfRegion) on pages of page bytes; mmap returns the address page.
MyInitOn(page, sizeOfRegion, env) ==
    /\ ~halted
    /\ IF AlreadyInitialised(allocated_once) \/ sizeOfRegion <= 0
       THEN /\ UNCHANGED <<heapStart, allocsize, allocated_once, mem>>
            /\ last' = [op |-> "init", arg |-> sizeOfRegion, ret |-> -1,
                        st |-> "ok", pre |-> mem, rep |-> NoRepeat]
            /\ script' = Follow("init", sizeOfRegion, -1)
       ELSE IF env = "open_fails"
       THEN /\ allocsize' = PaddedSizeOn(page, sizeOfRegion)
            /\ UNCHANGED <<heapStart, allocated_once, mem>>
            /\ last' = [op |-> "init", arg |-> sizeOfRegion, ret |-> -1,
                        st |-> "ok", pre |-> mem, rep |-> NoRepeat]
            /\ script' = Follow("init", sizeOfRegion, -1)
       ELSE IF env = "mmap_fails"
       THEN /\ allocsize' = PaddedSizeOn(page, sizeOfRegion)
            /\ allocated_once' = 0
            /\ UNCHANGED <<heapStart, mem>>
            /\ last' = [op |-> "init", arg |-> sizeOfRegion, ret |-> -1,
                        st |-> "ok", pre |-> mem, rep |-> NoRepeat]
            /\ script' = Follow("init", sizeOfRegion, -1)
       ELSE /\ allocated_once' = 1
            /\ allocsize' = PaddedSizeOn(page, sizeOfRegion) - 8
            /\ heapStart' = page + 4
            /\ mem' = InitialHeapAt(page, PaddedSizeOn(page, sizeOfRegion))
            /\ last' = [op |-> "init", arg |-> sizeOfRegion, ret |-> 0,
                        st |-> "ok", pre |-> mem, rep |-> NoRepeat]
            /\ script' = Follow("init", sizeOfRegion, 0)
    /\ UNCHANGED halted

MyInit(sizeOfRegion, env) == MyInitOn(pagesize, sizeOfRegion, env)

(* ------------------------------------------------------------------ *)
(* myAlloc                                                              *)
(* ------------------------------------------------------------------ *)

\* Mutant of RoundUp8: no padding is added.
RoundUp8NoPadding(size) == size

\* The block size of a request: header added, rounded up to a multiple of 8.
RoundUp8(size) ==
    IF CMod(size, 8) # 0 THEN Add32(Add32(size, 8), -CMod(size, 8)) ELSE size

\* Mutant of BlockSizeOf: the header is not counted.
BlockSizeOfNoHeader(n) == RoundUp8(n)

\* size of myAlloc: the request with the header, padded.
BlockSizeOf(n) == RoundUp8(Add32(HdrSize, n))

\* trueSize of the scan: the header with its two status bits taken off.
TrueSize(v) ==
    v - (IF And1(v) # 0 THEN 1 ELSE 0) - (IF And2(v) # 0 THEN 2 ELSE 0)

\* Mutant of BetterFit: first fit, the first block large enough is kept.
BetterFitFirst(trueSize, size, memoryAvailable) ==
    /\ trueSize >= size
    /\ memoryAvailable = -1

\* The best-fit test of the scan on a free block.
BetterFit(trueSize, size, memoryAvailable) ==
    /\ trueSize >= size
    /\ (memoryAvailable = -1 \/ memoryAvailable > trueSize)

\* The while loop of myAlloc from traverse on; best holds memoryAvailable,
\* block and previousBlock.
RECURSIVE BestFit(_, _, _, _, _)
BestFit(m, size, traverse, best, fuel) ==
    IF fuel = 0 THEN [st |-> "hang", best |-> best]
    ELSE IF ~Mapped(m, traverse) THEN [st |-> "fault", best |-> best]
    ELSE IF m[traverse] = 1 THEN [st |-> "ok", best |-> best]
    ELSE
        LET blockSize == m[traverse]
            trueSize  == TrueSize(blockSize)
            nb == IF CMod(blockSize, 2) = 0
                     /\ BetterFit(trueSize, size, best.memoryAvailable)
                  THEN [memoryAvailable |-> trueSize,
                        block |-> traverse,
                        previousBlock |-> IF And2(blockSize) # 0 THEN 2 ELSE 0]
                  ELSE best
        IN  BestFit(m, size, traverse + trueSize, nb, fuel - 1)

\* Mutant of SplitHeader: the remainder keeps the size of the whole block.
SplitHeaderWholeSize(memoryAvailable, size) == memoryAvailable + 2

\* The header written at sp in the split case.
SplitHeader(memoryAvailable, size) == memoryAvailable - size + 2

\* The header of the successor in the exact-fit case.
ExactNextHeader(v) == v + 2

\* myAlloc(n) on heap m: the heap after, the value returned, and whether the
\* call stayed within defined behaviour.
MyAllocResult(m, hs, asz, n) ==
    IF n <= 0 THEN [mem |-> m, ret |-> NULL, st |-> "ok"]
    ELSE
    LET size == BlockSizeOf(n) IN
    IF asz < size THEN [mem |-> m, ret |-> NULL, st |-> "ok"]
    ELSE
    LET r == BestFit(m, size, hs,
                     [memoryAvailable |-> -1, block |-> NULL, previousBlock |-> 0],
                     Fuel(m))
        memoryAvailable == r.best.memoryAvailable
        block == r.best.block
        sp == block + size
    IN
    IF r.st # "ok" THEN [mem |-> m, ret |-> NULL, st |-> r.st]
    ELSE IF memoryAvailable > size THEN
        IF ~Mapped(m, block) THEN [mem |-> m, ret |-> NULL, st |-> "fault"]
        ELSE
        LET m1 == [m EXCEPT ![block] = Add32(Add32(size, r.best.previousBlock), 1)] IN
        IF ~Mapped(m1, sp) THEN [mem |-> m1, ret |-> NULL, st |-> "fault"]
        ELSE IF m1[sp] = 1 THEN [mem |-> m1, ret |-> block + 4, st |-> "ok"]
        ELSE [mem |-> [m1 EXCEPT ![sp] = SplitHeader(memoryAvailable, size)],
              ret |-> block + 4, st |-> "ok"]
    ELSE IF memoryAvailable = size THEN
        LET m1 == [m EXCEPT ![block] = m[block] + 1] IN
        IF ~Mapped(m1, sp) THEN [mem |-> m1, ret |-> NULL, st |-> "fault"]
        ELSE IF m1[sp] = 1 THEN [mem |-> m1, ret |-> block + 4, st |-> "ok"]
        ELSE [mem |-> [m1 EXCEPT ![sp] = ExactNextHeader(m1[sp])],
              ret |-> block + 4, st |-> "ok"]
    ELSE [mem |-> m, ret |-> NULL, st |-> "ok"]

\* Whether the call before this one had the same operation and argument,
\* what it returned and whether it changed the heap.
Repeat(op, arg) ==
    IF last.op = op /\ last.arg = arg /\ last.st = "ok"
    THEN [same |-> TRUE, ret |-> last.ret, changed |-> last.pre # mem]
    ELSE NoRepeat

\* The interface requires a successful myInit before any other call, and no
\* call follows one that left defined behaviour.
MyAlloc(n) ==
    /\ ~halted
    /\ heapStart # NULL
    /\ LET r == MyAllocResult(mem, heapStart, allocsize, n) IN
        /\ mem' = r.mem
        /\ halted' = (r.st # "ok")
        /\ last' = [op |-> "alloc", arg |-> n, ret |-> r.ret, st |-> r.st,
                    pre |-> mem, rep |-> Repeat("alloc", n)]
        /\ script' = Follow("alloc", n, r.ret)
    /\ UNCHANGED <<heapStart, allocsize, allocated_once>>

(* ------------------------------------------------------------------ *)
(* myFree                                                               *)
(* ------------------------------------------------------------------ *)

\* Mutant of IsAllocatedHeader: the already-freed check is missing.
IsAllocatedHeaderAlways(v) == TRUE

\* The test that the block at ptr - 4 is allocated.
IsAllocatedHeader(v) == CMod(v, 2) = 1

\* Mutant of FreeNextHeader: the p-bit of the successor is left set.
FreeNextHeaderKept(v) == v

\* The header of the successor after the free.
FreeNextHeader(v) == v - 2

\* The writes of myFree once ptr passed its checks: the a-bit, the footer
\* and the p-bit of the next block.
FreeBlock(m, currentBlock) ==
    LET m1 == [m EXCEPT ![currentBlock] = m[currentBlock] - 1]
        currBlock_size == CDiv(m1[currentBlock], 8) * 8
        footer == currentBlock + currBlock_size - 4
    IN
    IF ~Mapped(m1, footer) THEN [mem |-> m1, ret |-> -1, st |-> "fault"]
    ELSE
    LET m2 == [m1 EXCEPT ![footer] = currBlock_size]
        nextBlock == currentBlock + CDiv(m2[currentBlock], 8) * 8
    IN
    IF ~Mapped(m2, nextBlock) THEN [mem |-> m2, ret |-> -1, st |-> "fault"]
    ELSE IF m2[nextBlock] # 1
    THEN [mem |-> [m2 EXCEPT ![nextBlock] = FreeNextHeader(m2[nextBlock])],
          ret |-> 0, st |-> "ok"]
    ELSE [mem |-> m2, ret |-> 0, st |-> "ok"]

\* myFree(ptr) on heap m. Addresses are below 2^32, so the casts to
\* unsigned int keep them.
MyFreeResult(m, hs, ptr) ==
    IF ptr = NULL THEN [mem |-> m, ret |-> -1, st |-> "ok"]
    ELSE IF ptr % 8 # 0 THEN [mem |-> m, ret |-> -1, st |-> "ok"]
    ELSE IF hs > ptr THEN [mem |-> m, ret |-> -1, st |-> "ok"]
    ELSE IF ~Mapped(m, ptr - 4) THEN [mem |-> m, ret |-> -1, st |-> "fault"]
    ELSE IF ~IsAllocatedHeader(m[ptr - 4]) THEN [mem |-> m, ret |-> -1, st |-> "ok"]
    ELSE FreeBlock(m, ptr - 4)

MyFree(ptr) ==
    /\ ~halted
    /\ heapStart # NULL
    /\ LET r == MyFreeResult(mem, heapStart, ptr) IN
        /\ mem' = r.mem
        /\ halted' = (r.st # "ok")
        /\ last' = [op |-> "free", arg |-> ptr, ret |-> r.ret, st |-> r.st,
                    pre |-> mem, rep |-> Repeat("free", ptr)]
        /\ script' = Follow("free", ptr, r.ret)
    /\ UNCHANGED <<heapStart, allocsize, allocated_once>>

(* ------------------------------------------------------------------ *)
(* coalesce                                                             *)
(* ------------------------------------------------------------------ *)

\* Mutant of ForwardMerge: the footer of the merged block is not written.
ForwardMergeNoFooter(m, currentBlock) ==
    LET nextBlock == currentBlock + CDiv(m[currentBlock], 8) * 8 IN
    IF ~Mapped(m, nextBlock) THEN [mem |-> m, st |-> "fault"]
    ELSE IF CMod(m[nextBlock], 2) = 0 /\ m[nextBlock] # 1
    THEN [mem |-> [m EXCEPT ![currentBlock] =
                       m[currentBlock] + CDiv(m[nextBlock], 8) * 8],
          st |-> "ok"]
    ELSE [mem |-> m, st |-> "ok"]

\* The first if of the loop body: the next block is free and not the end mark.
ForwardMerge(m, currentBlock) ==
    LET nextBlock == currentBlock + CDiv(m[currentBlock], 8) * 8 IN
    IF ~Mapped(m, nextBlock) THEN [mem |-> m, st |-> "fault"]
    ELSE IF CMod(m[nextBlock], 2) = 0 /\ m[nextBlock] # 1
    THEN
        LET m1 == [m EXCEPT ![currentBlock] =
                       m[currentBlock] + CDiv(m[nextBlock], 8) * 8]
            temporarySize == CDiv(m1[currentBlock], 8) * 8
            blockFooter == currentBlock + temporarySize - 4
        IN  IF ~Mapped(m1, blockFooter) THEN [mem |-> m1, st |-> "fault"]
            ELSE [mem |-> [m1 EXCEPT ![blockFooter] = temporarySize], st |-> "ok"]
    ELSE [mem |-> m, st |-> "ok"]

\* Mutant of PrevIsFree: the merge into the block before is never taken.
PrevIsFreeNever(v) == FALSE

\* Mutant of PrevIsFree: only the a-bit of the current block is tested.
PrevIsFreeIgnoresPBit(v) == CMod(v, 2) = 0

\* The test of the second if: the current block is free and so is the one before.
PrevIsFree(v) == CMod(v, 8) = 0

\* The second if of the loop body: merge into the block before, found by its footer.
BackwardMerge(m, currentBlock) ==
    IF ~PrevIsFree(m[currentBlock]) THEN [mem |-> m, st |-> "ok"]
    ELSE IF ~Mapped(m, currentBlock - 4) THEN [mem |-> m, st |-> "fault"]
    ELSE
    LET p_bit == m[currentBlock - 4]
        p == currentBlock - p_bit
    IN
    IF ~Mapped(m, p) THEN [mem |-> m, st |-> "fault"]
    ELSE
    LET m1 == [m EXCEPT ![p] = m[p] + CDiv(m[currentBlock], 8) * 8]
        temporarySize == CDiv(m1[p], 8) * 8
        blockFooter == p + temporarySize - 4
    IN  IF ~Mapped(m1, blockFooter) THEN [mem |-> m1, st |-> "fault"]
        ELSE [mem |-> [m1 EXCEPT ![blockFooter] = temporarySize], st |-> "ok"]

\* The while loop of coalesce from currentBlock on.
RECURSIVE CoalesceFrom(_, _, _)
CoalesceFrom(m, currentBlock, fuel) ==
    IF fuel = 0 THEN [mem |-> m, ret |-> 0, st |-> "hang"]
    ELSE IF ~Mapped(m, currentBlock) THEN [mem |-> m, ret |-> 0, st |-> "fault"]
    ELSE IF m[currentBlock] = 1 THEN [mem |-> m, ret |-> 0, st |-> "ok"]
    ELSE IF CMod(m[currentBlock], 2) = 0
    THEN
        LET f == ForwardMerge(m, currentBlock) IN
        IF f.st # "ok" THEN [mem |-> f.mem, ret |-> 0, st |-> f.st]
        ELSE
        LET b == BackwardMerge(f.mem, currentBlock) IN
        IF b.st # "ok" THEN [mem |-> b.mem, ret |-> 0, st |-> b.st]
        ELSE CoalesceFrom(b.mem,
                          currentBlock + CDiv(b.mem[currentBlock], 8) * 8,
                          fuel - 1)
    ELSE CoalesceFrom(m, currentBlock + CDiv(m[currentBlock], 8) * 8, fuel - 1)

CoalesceResult(m, hs) == CoalesceFrom(m, hs, Fuel(m))

\* The backward merges the while loop of coalesce takes from currentBlock
\* on: for each, the block it is taken on and the heap at that moment,
\* after the forward merge of the same iteration.
RECURSIVE BackwardMergesFrom(_, _, _)
BackwardMergesFrom(m, currentBlock, fuel) ==
    IF fuel = 0 \/ ~Mapped(m, currentBlock) THEN {}
    ELSE IF m[currentBlock] = 1 THEN {}
    ELSE IF CMod(m[currentBlock], 2) = 0
    THEN
        LET f == ForwardMerge(m, currentBlock) IN
        IF f.st # "ok" THEN {}
        ELSE
        LET b == BackwardMerge(f.mem, currentBlock)
            taken == IF PrevIsFree(f.mem[currentBlock])
                     THEN {[at |-> currentBlock, heap |-> f.mem]}
                     ELSE {}
        IN  IF b.st # "ok" THEN taken
            ELSE taken \cup
                 BackwardMergesFrom(b.mem,
                                    currentBlock + CDiv(b.mem[currentBlock], 8) * 8,
                                    fuel - 1)
    ELSE BackwardMergesFrom(m, currentBlock + CDiv(m[currentBlock], 8) * 8,
                            fuel - 1)

BackwardMerges(m, hs) == BackwardMergesFrom(m, hs, Fuel(m))

Coalesce ==
    /\ ~halted
    /\ heapStart # NULL
    /\ LET r == CoalesceResult(mem, heapStart) IN
        /\ mem' = r.mem
        /\ halted' = (r.st # "ok")
        /\ last' = [op |-> "coalesce", arg |-> 0, ret |-> r.ret, st |-> r.st,
                    pre |-> mem, rep |-> Repeat("coalesce", 0)]
        /\ script' = Follow("coalesce", 0, r.ret)
    /\ UNCHANGED <<heapStart, allocsize, allocated_once>>

(* ------------------------------------------------------------------ *)
(* Specifications.                                                      *)
(* ------------------------------------------------------------------ *)

Init ==
    /\ heapStart = NULL
    /\ allocsize = 0
    /\ allocated_once = 0
    /\ mem = NoMem
    /\ halted = FALSE
    /\ last = [op |-> "none", arg |-> 0, ret |-> 0, st |-> "ok",
               pre |-> NoMem, rep |-> NoRepeat]
    /\ script = ScriptStart

\* Requests: not positive, one that needs padding, and for every block size
\* of the arena and the first size beyond it the payload that fills it.
Requests == {-1, 0, 1} \cup {8 * k - 4 : k \in 1 .. PageDWords}

\* The payload addresses of the arena: every address myAlloc can return.
ArenaPointers == {MmapBase + 8 * k : k \in 1 .. PageDWords - 1}

\* Addresses of the arena that are not a multiple of 8.
MisalignedPointers == {MmapBase + 12}

\* Spec: the calls a client makes within the interface's contract: myInit
\* first, requests up to the arena's size, and myFree on NULL, on a payload
\* address of the arena (every address myAlloc returned is one) or on a
\* misaligned address of the arena.
Next ==
    \/ \E s \in InitSizes, env \in InitOutcomes : MyInit(s, env)
    \/ \E n \in Requests : MyAlloc(n)
    \/ \E ptr \in {NULL} \cup ArenaPointers \cup MisalignedPointers : MyFree(ptr)
    \/ Coalesce

Spec == Init /\ [][Next]_vars

\* Pointers outside the heap space: the start of the mapping, below the first
\* block, and the address right after the end mark, whose header word is the
\* end mark itself.
OutsidePointers == {MmapBase, MmapBase + pagesize}

Pointers == {NULL} \cup ArenaPointers \cup MisalignedPointers \cup OutsidePointers

\* Requests at the top of int's range.
HugeRequests == {INT_MAX}

\* SpecAnyArg: the same calls with any argument.
NextAnyArg ==
    \/ \E s \in InitSizes, env \in InitOutcomes : MyInit(s, env)
    \/ \E n \in Requests \cup HugeRequests : MyAlloc(n)
    \/ \E ptr \in Pointers : MyFree(ptr)
    \/ Coalesce

SpecAnyArg == Init /\ [][NextAnyArg]_vars

(* ------------------------------------------------------------------ *)
(* Reading a heap: the block chain decoded from the header words.       *)
(* ------------------------------------------------------------------ *)

Inited == heapStart # NULL

EndMark == heapStart + allocsize

\* The fields of a header word.
SizeOf(v) == v - (v % 4)
ABit(v) == v % 2
PBit(v) == (v \div 2) % 2

\* The starts of the blocks met walking from a by true size, up to the first
\* word that holds 1.
RECURSIVE Chain(_, _, _)
Chain(m, a, fuel) ==
    IF fuel = 0 \/ ~Mapped(m, a) THEN <<>>
    ELSE IF m[a] = 1 THEN <<>>
    ELSE <<a>> \o Chain(m, a + SizeOf(m[a]), fuel - 1)

Blocks(m) == Chain(m, heapStart, Fuel(m))

\* The address at which the walk stops.
ChainEnd(m) ==
    LET c == Blocks(m) IN
    IF c = <<>> THEN heapStart ELSE c[Len(c)] + SizeOf(m[c[Len(c)]])

RECURSIVE SumSizes(_, _, _)
SumSizes(m, c, i) ==
    IF i > Len(c) THEN 0 ELSE SizeOf(m[c[i]]) + SumSizes(m, c, i + 1)

IsFree(m, b) == ABit(m[b]) = 0

\* Some two address-adjacent blocks of the chain are both free.
AdjacentFree(m) ==
    LET c == Blocks(m) IN
    \E i \in 1 .. Len(c) - 1 : IsFree(m, c[i]) /\ IsFree(m, c[i + 1])

\* Some three blocks in a row are free, the last one ending at the end mark.
FreeRunOfThreeAtEnd(m) ==
    LET c == Blocks(m) IN
    /\ Len(c) >= 3
    /\ \A i \in Len(c) - 2 .. Len(c) : IsFree(m, c[i])
    /\ ChainEnd(m) = EndMark

(* ------------------------------------------------------------------ *)
(* The scenario's specification: pages of 4096 bytes.                   *)
(* ------------------------------------------------------------------ *)

\* The requests of the scenario.
ScenarioRequests == {40, 80}

\* The payload addresses of the blocks of the chain.
PayloadPointers(m) == {Blocks(m)[i] + 4 : i \in 1 .. Len(Blocks(m))}

\* The client of the scenario makes one more call.
ScenarioGoesOn == script.step > -MaxOffScript

\* SpecScenario: myInit(4096) on pages of 4096 bytes, the scenario's
\* requests, myFree on payload addresses of blocks, and coalesce, in any
\* order: the scenario and up to MaxOffScript calls after leaving it.
NextScenario ==
    \/ ScenarioGoesOn /\ MyInitOn(ScenarioPage, ScenarioPage, "ok")
    \/ \E n \in ScenarioRequests : ScenarioGoesOn /\ MyAlloc(n)
    \/ \E ptr \in PayloadPointers(mem) : ScenarioGoesOn /\ MyFree(ptr)
    \/ ScenarioGoesOn /\ Coalesce

SpecScenario == Init /\ [][NextScenario]_vars

(* ------------------------------------------------------------------ *)
(* The client's own stores into the payloads it was given.              *)
(* ------------------------------------------------------------------ *)

\* The values the client stores.
ClientValues == {1}

\* The payload words of the allocated blocks of the chain.
ClientWords(m) ==
    LET c == Blocks(m) IN
    {a \in DOMAIN m : \E i \in 1 .. Len(c) :
        /\ ABit(m[c[i]]) = 1
        /\ c[i] < a /\ a < c[i] + SizeOf(m[c[i]])}

\* The client stores v in the word at a of one of its payloads.
ClientWrite(a, v) ==
    /\ ~halted
    /\ heapStart # NULL
    /\ a \in ClientWords(mem)
    /\ mem' = [mem EXCEPT ![a] = v]
    /\ last' = [op |-> "write", arg |-> a, ret |-> 0, st |-> "ok",
                pre |-> mem, rep |-> NoRepeat]
    /\ script' = Follow("write", a, 0)
    /\ UNCHANGED <<heapStart, allocsize, allocated_once, halted>>

\* The payload addresses of the allocated blocks of the chain.
LivePointers(m) == {p \in PayloadPointers(m) : ABit(m[p - 4]) = 1}

\* SpecClient: a client that stores into the payloads it was given and
\* calls myFree only on NULL or on the payload address of an allocated block.
NextClient ==
    \/ \E s \in InitSizes, env \in InitOutcomes : MyInit(s, env)
    \/ \E n \in Requests : MyAlloc(n)
    \/ \E ptr \in {NULL} \cup LivePointers(mem) : MyFree(ptr)
    \/ Coalesce
    \/ \E a \in DOMAIN mem, v \in ClientValues : ClientWrite(a, v)

SpecClient == Init /\ [][NextClient]_vars

(* ------------------------------------------------------------------ *)
(* Claims.                                                              *)
(* ------------------------------------------------------------------ *)

\* Under Spec no call leaves defined behaviour.
NeverHalts == ~halted

\* Under Spec myFree succeeds only on an allocated block of the chain, that
\* is on an address myAlloc returned and that was not freed since.
FreesOnlyLiveBlocks ==
    (Inited /\ last.op = "free" /\ last.ret = 0) =>
        \E i \in 1 .. Len(Blocks(last.pre)) :
            /\ Blocks(last.pre)[i] = last.arg - 4
            /\ ABit(last.pre[last.arg - 4]) = 1

\* The blocks of heap m tile the usable arena.
Tiles(m) ==
    LET c == Blocks(m) IN
    /\ \A i \in 1 .. Len(c) : SizeOf(m[c[i]]) > 0
    /\ ChainEnd(m) = EndMark
    /\ Mapped(m, EndMark) /\ m[EndMark] = 1
    /\ SumSizes(m, c, 1) = allocsize

\* C1: after a successful myInit and any calls of myAlloc, myFree and
\* coalesce, the walk from heapStart by true size visits blocks of positive
\* size that sum to the usable arena size, and ends exactly at the end mark,
\* which still holds 1.
C1_Tiling == Inited => Tiles(mem)

\* C1 witness: a coalesce call merged blocks of a heap of three blocks or
\* more, and the result still has two blocks or more.
C1_Witness ==
    /\ Inited /\ last.op = "coalesce" /\ last.pre # mem
    /\ Len(Blocks(last.pre)) >= 3
    /\ Len(Blocks(mem)) >= 2
    /\ Tiles(mem)

\* C2: for every pair of address-adjacent blocks of the chain, the p-bit of
\* the successor equals the a-bit of the predecessor.
C2_PBits ==
    Inited =>
        LET c == Blocks(mem) IN
        \A i \in 1 .. Len(c) - 1 : PBit(mem[c[i + 1]]) = ABit(mem[c[i]])

\* C2 witness: a myFree call succeeded on a block that has a successor block,
\* whose p-bit now is 0, while an earlier block is allocated.
C2_Witness ==
    /\ Inited /\ last.op = "free" /\ last.ret = 0
    /\ LET c == Blocks(mem) IN
        /\ \E i \in 1 .. Len(c) - 1 :
              c[i] = last.arg - 4 /\ PBit(mem[c[i + 1]]) = 0
        /\ \E i \in 1 .. Len(c) - 1 :
              ABit(mem[c[i]]) = 1 /\ PBit(mem[c[i + 1]]) = 1

\* C3: right after a coalesce call no two address-adjacent blocks are both
\* free.
C3_CoalesceComplete ==
    (Inited /\ last.op = "coalesce" /\ last.st = "ok") => ~AdjacentFree(mem)

\* C3 witness: coalesce ran on a heap with a run of three free blocks that
\* ends at the end mark, and merged them.
C3_Witness ==
    /\ Inited /\ last.op = "coalesce" /\ last.st = "ok"
    /\ FreeRunOfThreeAtEnd(last.pre)
    /\ ~AdjacentFree(mem)
    /\ Len(Blocks(mem)) < Len(Blocks(last.pre))

\* The block size of a request of n > 0 bytes, in double words: n plus the
\* header, rounded up to a multiple of 8 (in double words so that requests at
\* the top of int's range have one too).
RoundedDWords(n) == ((n - 5) \div 8) + 2

\* The free blocks of heap m that can hold a request of n bytes.
Candidates(m, n) ==
    LET c == Blocks(m) IN
    {c[i] : i \in {j \in 1 .. Len(c) :
                     IsFree(m, c[j]) /\ SizeOf(m[c[j]]) \div 8 >= RoundedDWords(n)}}

AllocSucceeded == Inited /\ last.op = "alloc" /\ last.st = "ok" /\ last.ret # NULL

\* C4: a successful myAlloc allocates from a block that was free and large
\* enough, no larger than any other free block that is large enough, and the
\* lowest of those of its size.
C4_BestFit ==
    AllocSucceeded =>
        LET b == last.ret - 4
            cand == Candidates(last.pre, last.arg)
        IN  /\ b \in cand
            /\ ABit(mem[b]) = 1
            /\ \A c \in cand :
                /\ SizeOf(last.pre[b]) <= SizeOf(last.pre[c])
                /\ (SizeOf(last.pre[c]) = SizeOf(last.pre[b]) => b <= c)

\* C4 witness: myAlloc passed over a larger free block at a lower address for
\* a smaller one that fits.
C4_Witness ==
    /\ AllocSucceeded
    /\ LET b == last.ret - 4 IN
        \E c \in Candidates(last.pre, last.arg) :
            c < b /\ SizeOf(last.pre[c]) > SizeOf(last.pre[b])

\* C4 witness of the tie: two free blocks of the chosen size, the lower one taken.
C4_TieReached ==
    /\ AllocSucceeded
    /\ LET b == last.ret - 4 IN
        \E c \in Candidates(last.pre, last.arg) :
            c > b /\ SizeOf(last.pre[c]) = SizeOf(last.pre[b])

\* The footer of the block at b: its last word.
FooterOf(m, b) == m[b + SizeOf(m[b]) - 4]

\* C5: every free block of the chain has a footer equal to the true size in
\* its header, the remainder of a split included.
C5_FootersMatch ==
    Inited =>
        LET c == Blocks(mem) IN
        \A i \in 1 .. Len(c) :
            IsFree(mem, c[i]) => FooterOf(mem, c[i]) = SizeOf(mem[c[i]])

FreeFailed == last.st = "ok" /\ last.ret = -1 /\ mem = last.pre

\* C6: myFree of a pointer whose header address is below the first block or
\* at or beyond the end mark returns -1 and changes no word of the heap.
C6_OutsideRejected ==
    (Inited /\ last.op = "free" /\ last.arg # NULL
        /\ (last.arg - 4 < heapStart \/ last.arg - 4 >= EndMark))
    => FreeFailed

\* C6, the case it names: the end mark holds 1 after myFree(end mark + 4).
C6_EndMarkKept ==
    (Inited /\ last.op = "free" /\ last.arg = EndMark + 4) => mem[EndMark] = 1

\* The block at ptr - 4 of heap m is free.
AlreadyFree(m, ptr) == Mapped(m, ptr - 4) /\ ABit(m[ptr - 4]) = 0

\* C7: myFree returns -1 and changes no word when ptr is NULL, when ptr is
\* not a multiple of 8 and when the block at ptr - 4 is already free; myFree
\* of an allocated block returns 0, and the same call right after it returns
\* -1 and leaves the heap as the first call left it.
C7_FreeRejects ==
    (Inited /\ last.op = "free") =>
        /\ (last.arg = NULL \/ last.arg % 8 # 0 \/ AlreadyFree(last.pre, last.arg))
               => FreeFailed
        /\ (\E i \in 1 .. Len(Blocks(last.pre)) :
                /\ Blocks(last.pre)[i] = last.arg - 4
                /\ ABit(last.pre[last.arg - 4]) = 1)
               => (last.st = "ok" /\ last.ret = 0)
        /\ (last.rep.same /\ last.rep.ret = 0) => FreeFailed

\* C7 witness: the same address was freed twice in a row; the first call
\* returned 0 and the second -1.
C7_Witness ==
    /\ Inited /\ last.op = "free" /\ last.rep.same /\ last.rep.ret = 0
    /\ last.arg \in ArenaPointers
    /\ last.ret = -1 /\ mem = last.pre

\* C7 witnesses of the other rejections: a misaligned pointer, and NULL,
\* while a block is allocated.
C7_MisalignedReached ==
    /\ Inited /\ last.op = "free" /\ last.arg % 8 # 0 /\ last.ret = -1
    /\ \E i \in 1 .. Len(Blocks(mem)) : ABit(mem[Blocks(mem)[i]]) = 1

\* myAlloc returned NULL.
ReturnedNull == last.st = "ok" /\ last.ret = NULL

\* C8: myAlloc(n) returns NULL exactly when n <= 0, or the rounded block size
\* exceeds the usable arena size, or no free block of the chain is that
\* large; and a call that returns NULL changes no word.
C8_NullIff ==
    (Inited /\ last.op = "alloc") =>
        /\ ReturnedNull <=>
              \/ last.arg <= 0
              \/ RoundedDWords(last.arg) > allocsize \div 8
              \/ Candidates(last.pre, last.arg) = {}
        /\ ReturnedNull => mem = last.pre

\* C8 without the requests at the top of int's range.
C8_NullIffInRange ==
    (last.arg < INT_MAX - 10) => C8_NullIff

\* C9: a successful myAlloc returns a multiple of 8, and the true size of
\* every block of the chain is a positive multiple of 8.
C9_Alignment ==
    Inited =>
        /\ \A i \in 1 .. Len(Blocks(mem)) :
              LET size == SizeOf(mem[Blocks(mem)[i]]) IN size > 0 /\ size % 8 = 0
        /\ AllocSucceeded => last.ret % 8 = 0

\* C9 witness: a request that needs padding was served by a split, behind a
\* block made by an earlier call.
C9_Witness ==
    /\ AllocSucceeded /\ last.arg = 1
    /\ last.ret - 4 > heapStart
    /\ Len(Blocks(mem)) > Len(Blocks(last.pre))

\* C10: a coalesce call right after a coalesce call changes no word of the
\* heap.
C10_Idempotent ==
    (Inited /\ last.op = "coalesce" /\ last.rep.same) => mem = last.pre

\* C10 witness: coalesce merged blocks and was called again right after, on
\* a heap that holds a free block and an allocated one.
C10_Witness ==
    /\ Inited /\ last.op = "coalesce" /\ last.rep.same /\ last.rep.changed
    /\ mem = last.pre
    /\ \E i, j \in 1 .. Len(Blocks(mem)) :
          IsFree(mem, Blocks(mem)[i]) /\ ~IsFree(mem, Blocks(mem)[j])

\* C11: a myInit call made after a successful one, whatever its argument,
\* returns -1 and leaves heapStart, allocsize and every word of the heap as
\* they were, so the blocks allocated before stay allocated where they are.
C11_SecondInitRejected ==
    [][(allocated_once = 1 /\ last'.op = "init") =>
          /\ last'.ret = -1
          /\ UNCHANGED <<heapStart, allocsize, mem>>]_vars

\* C11 witness: myInit was called again for a whole page while a block was
\* allocated, and returned -1.
C11_Witness ==
    /\ Inited /\ last.op = "init" /\ last.arg = pagesize /\ last.ret = -1
    /\ last.pre = mem /\ mem # NoMem
    /\ \E i \in 1 .. Len(Blocks(mem)) : ABit(mem[Blocks(mem)[i]]) = 1

\* C12 as stated: when the calls made are exactly myInit(4096),
\* a1 = myAlloc(40), a2 = myAlloc(40), myFree(a1), coalesce(),
\* a3 = myAlloc(80), the last call succeeds and a3 equals a1.
C12_ReusesFirstBlock ==
    script.step = 6 => (last.ret # NULL /\ last.ret = script.a1)

\* C12 amended: after exactly those calls a3 is not NULL and is a2 + 48, the
\* start of the free space behind a2's block, and the block of a1 is still a
\* free block of 48 bytes.
C12_AllocatesBehindSecond ==
    script.step = 6 =>
        /\ last.ret # NULL
        /\ last.ret = script.a2 + 48
        /\ last.ret # script.a1
        /\ IsFree(mem, script.a1 - 4)
        /\ SizeOf(mem[script.a1 - 4]) = 48

\* C12 witness: the six calls of the scenario were made, a1 and a2 are the
\* first two payload addresses and the last call was myAlloc(80).
C12_Witness ==
    /\ script.step = 6
    /\ last.op = "alloc" /\ last.arg = 80 /\ last.st = "ok"
    /\ script.a1 = heapStart + 4
    /\ script.a2 = script.a1 + 48
    /\ IsFree(last.pre, script.a1 - 4)
    /\ ~IsFree(last.pre, script.a2 - 4)

\* The size in bytes of the block myAlloc(n) carves, for n > 0.
CarvedSize(n) == 8 * RoundedDWords(n)

\* The last call was a myAlloc that split a larger free block.
SplitTaken ==
    /\ Inited /\ AllocSucceeded
    /\ SizeOf(last.pre[last.ret - 4]) > CarvedSize(last.arg)

\* C13: when myAlloc splits a free block, whatever the words inside it
\* held, stale values or values the client stored such as 1, the word at
\* block start + block size is written as the header of a free block of
\* size found size - block size with the p-bit set, so the chain still
\* reaches the end mark.
C13_RemainderWritten ==
    SplitTaken =>
        LET block == last.ret - 4
            size  == CarvedSize(last.arg)
            found == SizeOf(last.pre[block])
        IN  /\ mem[block + size] = (found - size) + 2
            /\ ChainEnd(mem) = EndMark

\* The split was taken on a free block whose word at block start + block
\* size held 1, stored there by the client while the block was allocated.
C13_ClientOneReached ==
    /\ SplitTaken
    /\ last.pre[last.ret - 4 + CarvedSize(last.arg)] = 1

\* The last step was a call of the allocator that returned.
AllocatorCall == last.op \in {"alloc", "free", "coalesce"} /\ last.st = "ok"

\* The blocks of heap m that are allocated.
AllocatedBlocks(m) ==
    {Blocks(m)[i] : i \in {j \in 1 .. Len(Blocks(m)) : ABit(m[Blocks(m)[j]]) = 1}}

\* The payload words of the block at b in heap m.
PayloadWords(m, b) == {a \in DOMAIN m : b < a /\ a < b + SizeOf(m[b])}

\* The allocated blocks of the heap before the last call that the call did
\* not free.
StillLive ==
    {b \in AllocatedBlocks(last.pre) :
        ~(last.op = "free" /\ last.ret = 0 /\ last.arg = b + 4)}

\* C14: the payload range [p, p + n) a successful myAlloc(n) returns lies
\* inside the arena before the end mark and is disjoint from every block
\* that was allocated before the call; and every call leaves each block that
\* stays allocated with its a-bit and its size, and writes none of its
\* payload words.
C14_PayloadsSafe ==
    (Inited /\ AllocatorCall) =>
        /\ AllocSucceeded =>
              /\ heapStart + HdrSize <= last.ret
              /\ last.ret + last.arg <= EndMark
              /\ \A b \in AllocatedBlocks(last.pre) :
                    \/ last.ret + last.arg <= b
                    \/ b + SizeOf(last.pre[b]) <= last.ret - HdrSize
        /\ \A b \in StillLive :
              /\ ABit(mem[b]) = 1
              /\ SizeOf(mem[b]) = SizeOf(last.pre[b])
              /\ \A a \in PayloadWords(last.pre, b) : mem[a] = last.pre[a]

\* C14 witness: a myAlloc succeeded between two blocks that were allocated
\* before it and are allocated after it.
C14_Witness ==
    /\ Inited /\ AllocSucceeded
    /\ \E b1, b2 \in StillLive : b1 < last.ret /\ last.ret < b2
    /\ \A b \in StillLive :
          /\ ABit(mem[b]) = 1
          /\ \A a \in PayloadWords(last.pre, b) : mem[a] = last.pre[a]

\* A coalesce call merged blocks while a block was allocated.
C14_MergeBesideLiveReached ==
    /\ Inited /\ last.op = "coalesce" /\ last.st = "ok" /\ last.pre # mem
    /\ StillLive # {}

\* Every block of heap m is free.
AllFreed(m) == \A i \in 1 .. Len(Blocks(m)) : IsFree(m, Blocks(m)[i])

\* C15: a coalesce call on a heap all of whose blocks were freed leaves one
\* block: it is free, has the size of the whole usable arena and the p-bit
\* set, and the end mark follows it.
C15_AllFreedCollapses ==
    (Inited /\ last.op = "coalesce" /\ AllFreed(last.pre)) =>
        /\ last.st = "ok"
        /\ Blocks(mem) = <<heapStart>>
        /\ mem[heapStart] = allocsize + 2
        /\ mem[heapStart + allocsize] = 1

\* C15 witness: the last of three allocated blocks was freed, the others
\* being free already and no coalesce call in between, and then coalesce
\* left one block.
C15_Witness ==
    /\ Inited /\ last.op = "coalesce" /\ last.st = "ok"
    /\ Len(Blocks(last.pre)) >= 3
    /\ AllFreed(last.pre)
    /\ Blocks(mem) = <<heapStart>>

\* The words myFree may write when it frees the block at b of heap m: the
\* header, the last word of the block, and the header of the next block
\* unless that is the end mark.
FreeWrites(m, b) ==
    {b, b + SizeOf(m[b]) - 4}
        \cup (IF m[b + SizeOf(m[b])] # 1 THEN {b + SizeOf(m[b])} ELSE {})

\* C16: a successful myFree merges nothing: the blocks of the chain start
\* where they started and have the sizes they had; the header of the freed
\* block lost its a-bit, its last word holds its size, the header of the
\* next block, unless that is the end mark, lost its p-bit, and no other
\* word changed.
C16_FreeMergesNothing ==
    (Inited /\ last.op = "free" /\ last.st = "ok" /\ last.ret = 0) =>
        LET b    == last.arg - 4
            size == SizeOf(last.pre[b])
            next == b + size
        IN  /\ Blocks(mem) = Blocks(last.pre)
            /\ \A i \in 1 .. Len(Blocks(mem)) :
                  SizeOf(mem[Blocks(mem)[i]]) = SizeOf(last.pre[Blocks(mem)[i]])
            /\ mem[b] = last.pre[b] - 1
            /\ mem[b + size - 4] = size
            /\ last.pre[next] # 1 => mem[next] = last.pre[next] - 2
            /\ last.pre[next] = 1 => mem[next] = 1
            /\ \A a \in DOMAIN mem :
                  mem[a] # last.pre[a] => a \in FreeWrites(last.pre, b)

\* C16 witness: myFree succeeded on a block whose two neighbours are free
\* blocks, and the chain still has the three of them.
C16_Witness ==
    /\ Inited /\ last.op = "free" /\ last.st = "ok" /\ last.ret = 0
    /\ LET c == Blocks(mem) IN
        \E i \in 2 .. Len(c) - 1 :
            /\ c[i] = last.arg - 4
            /\ IsFree(last.pre, c[i - 1]) /\ IsFree(last.pre, c[i + 1])
            /\ IsFree(mem, c[i])
    /\ Blocks(mem) = Blocks(last.pre)

\* The sum of the sizes of the free blocks among c[i], c[i + 1], ... of heap m.
RECURSIVE FreeSizes(_, _, _)
FreeSizes(m, c, i) ==
    IF i > Len(c) THEN 0
    ELSE (IF IsFree(m, c[i]) THEN SizeOf(m[c[i]]) ELSE 0) + FreeSizes(m, c, i + 1)

\* C17: coalesce leaves every allocated block as it was: it is an allocated
\* block of the chain after the call, its header word and all its payload
\* words are unchanged; and the sizes of the free blocks sum to the same
\* total before and after the call.
C17_CoalesceKeepsAllocated ==
    (Inited /\ last.op = "coalesce" /\ last.st = "ok") =>
        /\ \A b \in AllocatedBlocks(last.pre) :
              /\ b \in AllocatedBlocks(mem)
              /\ mem[b] = last.pre[b]
              /\ \A a \in PayloadWords(last.pre, b) : mem[a] = last.pre[a]
        /\ FreeSizes(mem, Blocks(mem), 1)
              = FreeSizes(last.pre, Blocks(last.pre), 1)

\* C17 witness: coalesce merged free blocks while a block was allocated, and
\* the allocated block is unchanged.
C17_Witness ==
    /\ Inited /\ last.op = "coalesce" /\ last.st = "ok"
    /\ Len(Blocks(mem)) < Len(Blocks(last.pre))
    /\ \E b \in AllocatedBlocks(last.pre) :
          /\ b \in AllocatedBlocks(mem)
          /\ mem[b] = last.pre[b]
    /\ FreeSizes(mem, Blocks(mem), 1) >= 16

\* C18: the header at heapStart always has its p-bit set, so the test of the
\* backward merge fails on it; no backward merge of a coalesce call is taken
\* on the first block or computes a predecessor below heapStart, and the
\* word before heapStart is never written.
C18_FirstBlockPBit ==
    Inited =>
        /\ PBit(mem[heapStart]) = 1
        /\ ~PrevIsFree(mem[heapStart])
        /\ mem[heapStart - 4] = 0
        /\ ~halted
        /\ last.op = "coalesce" =>
              \A r \in BackwardMerges(last.pre, heapStart) :
                  /\ r.at # heapStart
                  /\ r.at - r.heap[r.at - 4] >= heapStart

\* C18 witness: the first block was allocated and freed again, coalesce then
\* merged it with the free blocks behind it, taking a backward merge, and
\* its p-bit is still set.
C18_Witness ==
    /\ Inited /\ last.op = "coalesce" /\ last.st = "ok" /\ last.pre # mem
    /\ IsFree(mem, heapStart)
    /\ SizeOf(mem[heapStart]) > SizeOf(last.pre[heapStart])
    /\ BackwardMerges(last.pre, heapStart) # {}
    /\ PBit(mem[heapStart]) = 1

\* The backward merge r reads, in the word before its block, the size of the
\* free block of the chain that ends where its block starts.
ReadsTrueFooter(r) ==
    /\ Mapped(r.heap, r.at - 4)
    /\ LET footer == r.heap[r.at - 4]
           p      == r.at - footer
           c      == Chain(r.heap, heapStart, Fuel(r.heap))
       IN  \E i \in 1 .. Len(c) :
               /\ c[i] = p
               /\ IsFree(r.heap, p)
               /\ SizeOf(r.heap[p]) = footer
               /\ p + SizeOf(r.heap[p]) = r.at

\* C19: whenever coalesce takes the backward merge on a block, the word
\* before that block holds the size in the header of the block of the chain
\* that ends there, so the predecessor address computed from it is the start
\* of that block; this holds also behind blocks left by a split, whose own
\* last word myAlloc never wrote.
C19_BackwardReadsTrueFooter ==
    (Inited /\ last.op = "coalesce") =>
        \A r \in BackwardMerges(last.pre, heapStart) : ReadsTrueFooter(r)

\* Some free block of heap m has a last word that differs from its size.
StaleFooter(m) ==
    \E i \in 1 .. Len(Blocks(m)) :
        /\ IsFree(m, Blocks(m)[i])
        /\ FooterOf(m, Blocks(m)[i]) # SizeOf(m[Blocks(m)[i]])

\* C19 witness: coalesce took a backward merge on a heap in which a free
\* block left by a split had a last word that differs from its size.
C19_Witness ==
    /\ Inited /\ last.op = "coalesce" /\ last.st = "ok"
    /\ BackwardMerges(last.pre, heapStart) # {}
    /\ StaleFooter(last.pre)
    /\ \A r \in BackwardMerges(last.pre, heapStart) : ReadsTrueFooter(r)

====
